---- MODULE Spec2Model ----
(***************************************************************************)
(* Model of globdata.py: class DataSet (one gridded nc4 file flattened     *)
(* into a pandas DataFrame) and class DataLoader (the ds_dict cache and    *)
(* the multi-file queries time_series / time_slice_daily).                 *)
(*                                                                         *)
(* Coordinates are whole degrees.  A DataFrame is a record                 *)
(* [kind, cols, rows]: cols is the sequence of column labels and rows the  *)
(* sequence of row tuples laid out along cols.  Python's None is a value   *)
(* of the same shape with kind "None".  A method call yields               *)
(* [status, df]; status is "ok" or the name of the exception raised.       *)
(***************************************************************************)
EXTENDS Integers, Sequences, FiniteSets, TLC

VARIABLES
  \* ---- one DataSet object on its own (specification SpecDS)
  nc,          \* the nc4 file it was constructed from
  ds,          \* the DataSet object: _dim_dict, _var_dict, df, _lat_set, _lon_set
  out,         \* the last method call on ds: what was called, on what, whether
               \* release() had been called before, the result
  \* ---- one DataLoader object (specification Spec)
  ds_dict,     \* DataLoader.ds_dict: file name -> DataSet
  pc,          \* position of the running query: idle, loop, load, query, evict
  call,        \* the running (or last) call: method and arguments
  idx,         \* position of current_file in files_list
  res_df,      \* the accumulating res_df
  result,      \* how the last call ended: [status, df]
  loads,       \* per file, the number of DataSet objects built from it
  named,       \* files the loop has reached so far
  allCached,   \* TRUE while every call so far was made with cache=True
  loadFailed,  \* the running (or last) call: the exception of a failed construction
  hit,         \* the last cache lookup found current_file in ds_dict
  ncalls       \* calls started

dsvars == <<nc, ds, out>>
dlvars == <<ds_dict, pc, call, idx, res_df, result, loads, named, allCached,
            loadFailed, hit, ncalls>>
vars == <<nc, ds, out, ds_dict, pc, call, idx, res_df, result, loads, named,
          allCached, loadFailed, hit, ncalls>>

----------------------------------------------------------------------------
\* Bounds of the model.
MaxT == 2        \* longest time axis of a generated file
MaxL == 2        \* longest lat axis of a generated file
MaxM == 2        \* longest lon axis of a generated file
MaxFiles == 2    \* longest files_list
MaxCalls == 2    \* calls made on one DataLoader

\* Physical ranges tested by _create_coords.
MaxLat == 90
MaxLon == 180

\* Axis values of generated files and the arguments tried on them.
TimeVals == {0, 1}
LatVals == {30, 95}
LonVals == {35, 200}
LatArgs == {30, 35, 95}
LonArgs == {35, 200}
TimeArgs == {0, 1}
VarLists == {<<"total_precipitation">>,
             <<"surface_air_temperature", "total_precipitation">>,
             <<"no_such_variable">>}
VarNames == {"total_precipitation", "surface_air_temperature", "no_such_variable"}

Range(s) == {s[n] : n \in 1..Len(s)}
SeqsUpTo(S, n) == UNION {[1..m -> S] : m \in 1..n}

----------------------------------------------------------------------------
\* pandas values
NoneDF == [kind |-> "None", cols |-> <<>>, rows |-> <<>>]
EmptyDataFrame == [kind |-> "DataFrame", cols |-> <<>>, rows |-> <<>>]
NaN == -1

Ok(df) == [status |-> "ok", df |-> df]
Raise(exc) == [status |-> exc, df |-> NoneDF]

ColIdx(cols, name) == CHOOSE n \in 1..Len(cols) : cols[n] = name

\* dfl.loc[mask]: the rows whose column `name` equals `value`, in order
LocEq(df, name, value) ==
  [df EXCEPT !.rows = SelectSeq(df.rows, LAMBDA r : r[ColIdx(df.cols, name)] = value)]

\* dfl[[names]]: KeyError when a label is no column
Columns(df, names) ==
  IF \E n \in 1..Len(names) : names[n] \notin Range(df.cols)
  THEN Raise("KeyError")
  ELSE Ok([kind |-> "DataFrame", cols |-> names,
           rows |-> [p \in 1..Len(df.rows) |->
                       [n \in 1..Len(names) |-> df.rows[p][ColIdx(df.cols, names[n])]]]])

\* curr_df['FileName'] = current_file
SetColumn(df, name, value) ==
  [df EXCEPT !.cols = Append(df.cols, name),
             !.rows = [p \in 1..Len(df.rows) |-> Append(df.rows[p], value)]]

UnionCols(a, b) == a \o SelectSeq(b, LAMBDA c : c \notin Range(a))
Reindex(df, cols) ==
  [p \in 1..Len(df.rows) |->
     [n \in 1..Len(cols) |->
        IF cols[n] \in Range(df.cols) THEN df.rows[p][ColIdx(df.cols, cols[n])] ELSE NaN]]

ConcatSwapped(a, b) ==
  LET cols == UnionCols(b.cols, a.cols)
  IN [kind |-> "DataFrame", cols |-> cols, rows |-> Reindex(b, cols) \o Reindex(a, cols)]

\* pd.concat([a, b]): the rows of a, then the rows of b, over the union of the columns
Concat(a, b) ==
  LET cols == UnionCols(a.cols, b.cols)
  IN [kind |-> "DataFrame", cols |-> cols, rows |-> Reindex(a, cols) \o Reindex(b, cols)]

\* res_df.to_numpy(): the same rows without the column labels
ToNumpy(df) == [kind |-> "ndarray", cols |-> <<>>, rows |-> df.rows]

----------------------------------------------------------------------------
\* An nc4 file: the three coordinate axes and, per data variable, a grid of
\* shape (time, lat, lon).
NcVariables ==
  << [name |-> "time", long_name |-> "time"],
     [name |-> "lat", long_name |-> "latitude"],
     [name |-> "lon", long_name |-> "longitude"],
     [name |-> "PRECTOT", long_name |-> "total_precipitation"],
     [name |-> "TLML", long_name |-> "surface_air_temperature"] >>

NcFile(time, lat, lon, base) ==
  [exists |-> TRUE, time |-> time, lat |-> lat, lon |-> lon, base |-> base]
\* a name with no readable file behind it
MissingFile == [exists |-> FALSE, time |-> <<>>, lat |-> <<>>, lon |-> <<>>, base |-> 0]

\* The value of cell [i][j][k] (1-based) of variable `name` of file f.  Every cell of a
\* variable holds a different number: PRECTOT counts the cells up from base+1 in
\* (time, lat, lon) order, TLML counts them in (lon, lat, time) order from base+51.
Grid(f, name) ==
  LET T == Len(f.time)
      L == Len(f.lat)
      M == Len(f.lon)
  IN [i \in 1..T |-> [j \in 1..L |-> [k \in 1..M |->
        IF name = "PRECTOT"
        THEN f.base + (i - 1) * L * M + (j - 1) * M + (k - 1) + 1
        ELSE f.base + 50 + (k - 1) * L * T + (j - 1) * T + (i - 1) + 1]]]
----------------------------------------------------------------------------
\* class DataSet

CoordinateNames == {"longitude", "latitude", "time"}

\* _dim_dict: dimension name -> size
DimDict(f) == [time |-> Len(f.time), lat |-> Len(f.lat), lon |-> Len(f.lon)]

\* _var_dict: long_name -> name
VarDict ==
  [ln \in {NcVariables[n].long_name : n \in 1..Len(NcVariables)} |->
     NcVariables[CHOOSE n \in 1..Len(NcVariables) : NcVariables[n].long_name = ln].name]

\* the keys of _var_dict in insertion order, the coordinate variables left out
DataColumns ==
  LET keys == [n \in 1..Len(NcVariables) |-> NcVariables[n].long_name]
  IN SelectSeq(keys, LAMBDA k : k \notin CoordinateNames)

\* pd.MultiIndex.from_product([time, lat, lon]): time varies slowest, lon fastest
FromProduct(time, lat, lon) ==
  LET L == Len(lat)
      M == Len(lon)
  IN [p \in 1..(Len(time) * L * M) |->
        << time[((p - 1) \div (L * M)) + 1],
           lat[(((p - 1) \div M) % L) + 1],
           lon[((p - 1) % M) + 1] >>]

FlattenColumnMajor(grid, T, L, M) ==
  [p \in 1..(T * L * M) |->
     grid[((p - 1) % T) + 1][(((p - 1) \div T) % L) + 1][((p - 1) \div (T * L)) + 1]]

\* ndarray.flatten() of a (T, L, M) array: row-major, the last axis fastest
Flatten(grid, T, L, M) ==
  [p \in 1..(T * L * M) |->
     grid[((p - 1) \div (L * M)) + 1][(((p - 1) \div M) % L) + 1][((p - 1) % M) + 1]]

\* _convert2dataframe: one row per element of the product index, one column per
\* data variable holding its flattened grid, the index turned back into columns
Convert2DataFrame(f) ==
  LET multi_index == FromProduct(f.time, f.lat, f.lon)
      fl(k) == Flatten(Grid(f, VarDict[k]), Len(f.time), Len(f.lat), Len(f.lon))
  IN [kind |-> "DataFrame",
      cols |-> <<"time", "lat", "lon">> \o DataColumns,
      rows |-> [p \in 1..Len(multi_index) |->
                  multi_index[p] \o [n \in 1..Len(DataColumns) |-> fl(DataColumns[n])[p]]]]

\* _create_coords: the lat (lon) values of the rows inside the physical range
LatSet(df) ==
  {r[ColIdx(df.cols, "lat")] :
     r \in {x \in Range(df.rows) : x[ColIdx(df.cols, "lat")] <= MaxLat
                                    /\ x[ColIdx(df.cols, "lat")] >= -MaxLat}}
LonSet(df) ==
  {r[ColIdx(df.cols, "lon")] :
     r \in {x \in Range(df.rows) : x[ColIdx(df.cols, "lon")] <= MaxLon
                                    /\ x[ColIdx(df.cols, "lon")] >= -MaxLon}}

NoDataSet == [dim_dict |-> [time |-> 0, lat |-> 0, lon |-> 0], var_dict |-> VarDict,
              df |-> NoneDF, lat_set |-> {}, lon_set |-> {}]

\* DataSet.__init__: [status, obj]; a file that cannot be opened raises NameError
\* and yields no object
DataSetInit(f) ==
  IF ~f.exists
  THEN [status |-> "NameError", obj |-> NoDataSet]
  ELSE LET df == Convert2DataFrame(f)
       IN [status |-> "ok",
           obj |-> [dim_dict |-> DimDict(f), var_dict |-> VarDict, df |-> df,
                    lat_set |-> LatSet(df), lon_set |-> LonSet(df)]]

get_dim_dict(d) == d.dim_dict
get_var_dict(d) == d.var_dict
get_coord_set(d) == <<d.lat_set, d.lon_set>>

coord_timeseries_or(d, lat, lon, var_long) ==
  IF (lon \in d.lon_set) \/ (lat \in d.lat_set)
  THEN IF d.df.kind = "None"
       THEN Raise("AttributeError")
       ELSE Columns(LocEq(LocEq(d.df, "lat", lat), "lon", lon), <<"time">> \o var_long)
  ELSE Ok(EmptyDataFrame)

\* DataSet.coord_timeseries
coord_timeseries(d, lat, lon, var_long) ==
  IF (lon \in d.lon_set) /\ (lat \in d.lat_set)
  THEN IF d.df.kind = "None"
       THEN Raise("AttributeError")
       ELSE Columns(LocEq(LocEq(d.df, "lat", lat), "lon", lon), <<"time">> \o var_long)
  ELSE Ok(EmptyDataFrame)

time_slice_unfiltered(d, time, var_long) ==
  IF d.df.kind = "None"
  THEN Raise("AttributeError")
  ELSE Columns(d.df, <<"lat", "lon", var_long>>)

\* DataSet.time_slice
time_slice(d, time, var_long) ==
  IF d.df.kind = "None"
  THEN Raise("AttributeError")
  ELSE Columns(LocEq(d.df, "time", time), <<"lat", "lon", var_long>>)

release_all(d) == [d EXCEPT !.df = NoneDF, !.lat_set = {}, !.lon_set = {}]
release_empty(d) == [d EXCEPT !.df = EmptyDataFrame]

\* DataSet.release
release(d) == [d EXCEPT !.df = NoneDF]

----------------------------------------------------------------------------
\* Specification SpecDS: a DataSet built from any small file, then queried and
\* released in any order.

GeneratedFiles ==
  {NcFile(t, la, lo, 0) : t \in SeqsUpTo(TimeVals, MaxT),
                          la \in SeqsUpTo(LatVals, MaxL),
                          lo \in SeqsUpTo(LonVals, MaxM)}

NoCall == [op |-> "init", lat |-> 0, lon |-> 0, time |-> 0, var_long |-> <<>>,
           before |-> NoDataSet, released |-> FALSE, res |-> Ok(EmptyDataFrame)]

DSInit ==
  /\ nc \in GeneratedFiles
  /\ ds = DataSetInit(nc).obj
  /\ out = NoCall

DSIdle ==
  /\ nc = MissingFile
  /\ ds = NoDataSet
  /\ out = NoCall

CoordTimeseries ==
  /\ \E lat \in LatArgs, lon \in LonArgs, var_long \in VarLists :
       out' = [op |-> "coord_timeseries", lat |-> lat, lon |-> lon, time |-> 0,
               var_long |-> var_long, before |-> ds, released |-> out.released,
               res |-> coord_timeseries(ds, lat, lon, var_long)]
  /\ UNCHANGED <<nc, ds>>
  /\ UNCHANGED dlvars

TimeSlice ==
  /\ \E time \in TimeArgs, var_long \in VarNames :
       out' = [op |-> "time_slice", lat |-> 0, lon |-> 0, time |-> time,
               var_long |-> <<var_long>>, before |-> ds, released |-> out.released,
               res |-> time_slice(ds, time, var_long)]
  /\ UNCHANGED <<nc, ds>>
  /\ UNCHANGED dlvars

Release ==
  /\ ds' = release(ds)
  /\ out' = [NoCall EXCEPT !.op = "release", !.before = ds, !.released = TRUE]
  /\ UNCHANGED nc
  /\ UNCHANGED dlvars
----------------------------------------------------------------------------
\* class DataLoader

FileNames == {"f1.nc4", "f2.nc4", "missing.nc4"}

\* what is on disk behind each name
Disk(name) ==
  CASE name = "f1.nc4" -> NcFile(<<0, 1>>, <<30, 35>>, <<35, 40>>, 0)
    [] name = "f2.nc4" -> NcFile(<<1, 2>>, <<35, 95>>, <<35, 40>>, 10)
    [] OTHER -> MissingFile

\* arguments tried on the loader
LoaderLatArgs == {30, 35}
LoaderLonArgs == {35}
LoaderVarLists == {<<"total_precipitation">>}
LoaderVarNames == {"total_precipitation", "no_such_variable"}
FileLists == {<<>>} \cup SeqsUpTo(FileNames, MaxFiles)

EmptyDict == [f \in {} |-> NoDataSet]
Put(d, f, obj) == [g \in (DOMAIN d) \cup {f} |-> IF g = f THEN obj ELSE d[g]]
Del(d, f) == [g \in (DOMAIN d) \ {f} |-> d[g]]

load_dataset_partial(d, file_name) ==
  LET r == DataSetInit(Disk(file_name))
  IN Put(d, file_name, r.obj)

\* DataLoader._load_dataset: the entry is stored after the construction succeeded;
\* any exception of the construction is caught and only printed
load_dataset(d, file_name) ==
  LET r == DataSetInit(Disk(file_name))
  IN IF r.status = "ok" THEN Put(d, file_name, r.obj) ELSE d

NeverInCache(d, current_file) == FALSE

\* current_file in self.ds_dict.keys()
InCache(d, current_file) == current_file \in DOMAIN d

EvictWhenCached(d, current_file, cache) ==
  IF cache THEN Del(d, current_file) ELSE d

\* if not cache: del self.ds_dict[current_file]
Evict(d, current_file, cache) ==
  IF ~cache THEN Del(d, current_file) ELSE d

NoLoaderCall == [op |-> "none", files_list |-> <<>>, lat |-> 0, lon |-> 0, time |-> 0,
                 var_long |-> <<>>, cache |-> TRUE, as_numpy |-> FALSE]
Pending == [status |-> "running", df |-> NoneDF]

DLInit ==
  /\ ds_dict = EmptyDict
  /\ pc = "idle"
  /\ call = NoLoaderCall
  /\ idx = 1
  /\ res_df = EmptyDataFrame
  /\ result = [status |-> "none", df |-> NoneDF]
  /\ loads = [f \in FileNames |-> 0]
  /\ named = {}
  /\ allCached = TRUE
  /\ loadFailed = "none"
  /\ hit = FALSE
  /\ ncalls = 0

\* entry of a query method: res_df = pd.DataFrame()
Start(c) ==
  /\ call' = c
  /\ pc' = "loop"
  /\ idx' = 1
  /\ res_df' = EmptyDataFrame
  /\ result' = Pending
  /\ loadFailed' = "none"
  /\ hit' = FALSE
  /\ allCached' = (allCached /\ c.cache)
  /\ ncalls' = ncalls + 1
  /\ UNCHANGED <<ds_dict, loads, named>>
  /\ UNCHANGED dsvars

\* a client calls DataLoader.time_series
CallTimeSeries ==
  /\ pc = "idle"
  /\ ncalls < MaxCalls
  /\ \E files_list \in FileLists, lat \in LoaderLatArgs, lon \in LoaderLonArgs,
        var_long \in LoaderVarLists, cache \in BOOLEAN, as_numpy \in BOOLEAN :
       Start([op |-> "time_series", files_list |-> files_list, lat |-> lat, lon |-> lon,
           time |-> 0, var_long |-> var_long, cache |-> cache, as_numpy |-> as_numpy])

\* a client calls DataLoader.time_slice_daily
CallTimeSliceDaily ==
  /\ pc = "idle"
  /\ ncalls < MaxCalls
  /\ \E files_list \in FileLists, time \in TimeArgs, var_long \in LoaderVarNames,
        cache \in BOOLEAN :
       Start([op |-> "time_slice_daily", files_list |-> files_list, lat |-> 0, lon |-> 0,
           time |-> time, var_long |-> <<var_long>>, cache |-> cache,
           as_numpy |-> FALSE])

\* for current_file in files_list: the next file, or the return after the last one
Loop ==
  /\ pc = "loop"
  /\ IF idx <= Len(call.files_list)
     THEN /\ pc' = "load"
          /\ UNCHANGED result
     ELSE /\ pc' = "idle"
          /\ result' = Ok(IF call.as_numpy THEN ToNumpy(res_df) ELSE res_df)
  /\ UNCHANGED <<ds_dict, call, idx, res_df, loads, named, allCached, loadFailed, hit,
                 ncalls>>
  /\ UNCHANGED dsvars

\* if current_file not in self.ds_dict.keys(): self._load_dataset(current_file)
Load ==
  /\ pc = "load"
  /\ LET current_file == call.files_list[idx]
         r == DataSetInit(Disk(current_file))
     IN /\ named' = named \cup {current_file}
        /\ hit' = (current_file \in DOMAIN ds_dict)
        /\ IF ~InCache(ds_dict, current_file)
           THEN /\ ds_dict' = load_dataset(ds_dict, current_file)
                /\ loads' = IF r.status = "ok"
                            THEN [loads EXCEPT ![current_file] = @ + 1]
                            ELSE loads
                /\ loadFailed' = IF r.status = "ok" THEN loadFailed ELSE r.status
           ELSE UNCHANGED <<ds_dict, loads, loadFailed>>
  /\ pc' = "query"
  /\ UNCHANGED <<call, idx, res_df, result, allCached, ncalls>>
  /\ UNCHANGED dsvars

\* the per-file query of the running call on a cached DataSet
PerFile(c, d, current_file) ==
  IF c.op = "time_series"
  THEN coord_timeseries(d, c.lat, c.lon, c.var_long)
  ELSE LET r == time_slice(d, c.time, c.var_long[1])
       IN IF r.status = "ok" THEN Ok(SetColumn(r.df, "FileName", current_file)) ELSE r

\* curr_df = self.ds_dict[current_file].<query>(...); res_df = pd.concat([res_df, curr_df])
\* An exception (no entry for current_file, or one raised by the query) ends the call.
Query ==
  /\ pc = "query"
  /\ LET current_file == call.files_list[idx]
     IN IF current_file \notin DOMAIN ds_dict
        THEN /\ result' = Raise("KeyError")
             /\ pc' = "idle"
             /\ UNCHANGED res_df
        ELSE LET r == PerFile(call, ds_dict[current_file], current_file)
             IN IF r.status = "ok"
                THEN /\ res_df' = Concat(res_df, r.df)
                     /\ pc' = "evict"
                     /\ UNCHANGED result
                ELSE /\ result' = Raise(r.status)
                     /\ pc' = "idle"
                     /\ UNCHANGED res_df
  /\ UNCHANGED <<ds_dict, call, idx, loads, named, allCached, loadFailed, hit, ncalls>>
  /\ UNCHANGED dsvars

\* if not cache: del self.ds_dict[current_file]; then on to the next file
EvictStep ==
  /\ pc = "evict"
  /\ ds_dict' = Evict(ds_dict, call.files_list[idx], call.cache)
  /\ idx' = idx + 1
  /\ pc' = "loop"
  /\ UNCHANGED <<call, res_df, result, loads, named, allCached, loadFailed, hit, ncalls>>
  /\ UNCHANGED dsvars

Init == DLInit /\ DSIdle
Next == CallTimeSeries \/ CallTimeSliceDaily \/ Loop \/ Load \/ Query \/ EvictStep
Spec == Init /\ [][Next]_vars

InitDS == DSInit /\ DLInit
NextDS == CoordTimeseries \/ TimeSlice \/ Release
SpecDS == InitDS /\ [][NextDS]_vars

----------------------------------------------------------------------------
\* Properties of one DataSet (checked under SpecDS)

Valid(d, lat, lon) == lat \in get_coord_set(d)[1] /\ lon \in get_coord_set(d)[2]
NoRepeats(s) == \A m, n \in 1..Len(s) : s[m] = s[n] => m = n
KnownVars(var_long) == Range(var_long) \subseteq Range(DataColumns)

\* the row the claim expects at time position i for the cell (j, k)
CellRow(f, var_long, i, j, k) ==
  <<f.time[i]>> \o [n \in 1..Len(var_long) |-> Grid(f, VarDict[var_long[n]])[i][j][k]]

\* C5: a coord_timeseries call whose lat is not in _lat_set or whose lon is not in
\* _lon_set returns the empty DataFrame and raises nothing, whatever var_long is
\* (unknown names included) and whether or not the table was released.
C5_SoftFailureOnBadCoordinates ==
  (out.op = "coord_timeseries" /\ ~Valid(out.before, out.lat, out.lon))
    => out.res = Ok(EmptyDataFrame)

\* C5 witness: a latitude that is on the file's axis but outside [-90, 90], asked
\* for with a valid longitude and an unknown variable name.
C5_Witness ==
  /\ out.op = "coord_timeseries"
  /\ out.lat \in Range(nc.lat) /\ out.lat \notin out.before.lat_set
  /\ out.lon \in out.before.lon_set
  /\ out.var_long = <<"no_such_variable">>
  /\ out.res.status = "ok" /\ out.res.df.rows = <<>>

\* C6 as stated: for valid lat[j], lon[k] and known variables, coord_timeseries returns as
\* many rows as the file has distinct time values, the i-th being (time[i], v[i][j][k]).
C6_Original_RowsPerDistinctTime ==
  (/\ out.op = "coord_timeseries"
   /\ out.before.df.kind = "DataFrame"
   /\ KnownVars(out.var_long)
   /\ Valid(out.before, out.lat, out.lon))
    => \A j \in 1..Len(nc.lat), k \in 1..Len(nc.lon) :
         (nc.lat[j] = out.lat /\ nc.lon[k] = out.lon)
           => /\ out.res.status = "ok"
              /\ Len(out.res.df.rows) = Cardinality(Range(nc.time))
              /\ \A i \in 1..Len(out.res.df.rows) :
                    out.res.df.rows[i] = CellRow(nc, out.var_long, i, j, k)

\* C6 amended: when the lat axis and the lon axis hold no repeated value, the call
\* returns one row per position of the time axis (repeated time values included), in
\* time-axis order, the i-th being (time[i], v[i][j][k]) for each requested v.
C6_PointTimeSeries ==
  (/\ out.op = "coord_timeseries"
   /\ out.before.df.kind = "DataFrame"
   /\ KnownVars(out.var_long)
   /\ Valid(out.before, out.lat, out.lon)
   /\ NoRepeats(nc.lat) /\ NoRepeats(nc.lon))
    => \A j \in 1..Len(nc.lat), k \in 1..Len(nc.lon) :
         (nc.lat[j] = out.lat /\ nc.lon[k] = out.lon)
           => /\ out.res.status = "ok"
              /\ out.res.df.cols = <<"time">> \o out.var_long
              /\ Len(out.res.df.rows) = Len(nc.time)
              /\ \A i \in 1..Len(nc.time) :
                    out.res.df.rows[i] = CellRow(nc, out.var_long, i, j, k)

\* C6 witness: a 2 x 2 x 2 file queried at its second latitude and first longitude
\* for both variables; two rows come back.
C6_Witness ==
  /\ out.op = "coord_timeseries"
  /\ nc.time = <<0, 1>> /\ Len(nc.lat) = 2 /\ Len(nc.lon) = 2
  /\ NoRepeats(nc.lat) /\ NoRepeats(nc.lon)
  /\ out.lat = nc.lat[2] /\ out.lon = nc.lon[1]
  /\ Len(out.var_long) = 2
  /\ out.res.status = "ok" /\ Len(out.res.df.rows) = 2

\* C7: release() discards the row table and changes nothing else: the dimension and
\* variable dictionaries and the coordinate sets read the same before and after, and
\* releasing a released DataSet changes nothing.
C7_ReleaseKeepsMetadata ==
  out.op = "release"
    => /\ ds.df.kind = "None" /\ ds.df.rows = <<>>
       /\ get_dim_dict(ds) = get_dim_dict(out.before)
       /\ get_var_dict(ds) = get_var_dict(out.before)
       /\ get_coord_set(ds) = get_coord_set(out.before)
       /\ get_dim_dict(ds) = DimDict(nc)
       /\ release(ds) = ds
       /\ (out.before.df.kind = "None" => ds = out.before)

\* C7 witness: release() called on a DataSet that was already released and that has
\* valid coordinates to keep.
C7_Witness ==
  /\ out.op = "release"
  /\ out.before.df.kind = "None"
  /\ ds.lat_set # {} /\ ds.lon_set # {}

\* C10: a query on a released DataSet returns no row: coord_timeseries with a
\* coordinate outside the valid sets returns the empty DataFrame; with valid coordinates
\* it raises, and so does time_slice for any time; the coordinate sets are still those
\* computed at construction.
C10_QueriesAfterRelease ==
  (out.op \in {"coord_timeseries", "time_slice"} /\ out.released)
    => /\ out.res.df.rows = <<>>
       /\ (out.op = "coord_timeseries" /\ ~Valid(out.before, out.lat, out.lon))
            => out.res = Ok(EmptyDataFrame)
       /\ (out.op = "coord_timeseries" /\ Valid(out.before, out.lat, out.lon))
            => out.res = Raise("AttributeError")
       /\ out.op = "time_slice" => out.res = Raise("AttributeError")
       /\ get_coord_set(out.before) = get_coord_set(DataSetInit(nc).obj)

\* C10 witness: a released DataSet asked for a time series at a coordinate that is
\* still in its valid sets, and raising.
C10_Witness ==
  /\ out.op = "coord_timeseries"
  /\ out.released
  /\ out.lat \in out.before.lat_set /\ out.lon \in out.before.lon_set
  /\ out.res.status = "AttributeError"
----------------------------------------------------------------------------
\* Properties of the DataLoader (checked under Spec)

Returned == pc = "idle" /\ result.status = "ok"
Count(s, x) == Cardinality({n \in 1..Len(s) : s[n] = x})

\* C1: when a call made with cache=False returns, no name of its files_list is a key
\* of ds_dict, whatever was cached before the call and however often a name is listed.
C1_EvictionWithoutCache ==
  (Returned /\ ~call.cache)
    => \A n \in 1..Len(call.files_list) : call.files_list[n] \notin DOMAIN ds_dict

\* C1 witness: a cache=False call over two different files returned, and the last of
\* them was found in the cache (left there by the earlier call) when its turn came.
C1_Witness ==
  /\ Returned /\ ~call.cache
  /\ Len(call.files_list) = 2 /\ call.files_list[1] # call.files_list[2]
  /\ hit
  /\ ds_dict = EmptyDict

\* C2: while every call so far used cache=True, a loadable file has been constructed
\* exactly once if the loop has reached it and never otherwise, and a file the loop
\* has reached stays in ds_dict.
C2_CacheIdempotence ==
  allCached
    => \A f \in FileNames :
         Disk(f).exists
           => /\ loads[f] = (IF f \in named THEN 1 ELSE 0)
              /\ (f \in named <=> f \in DOMAIN ds_dict)

\* C2 witness: in the second of two cache=True calls the first file is found in
\* ds_dict and is not loaded again.
C2_Witness ==
  /\ allCached /\ ncalls = 2
  /\ pc = "query" /\ idx = 1 /\ hit
  /\ loads[call.files_list[1]] = 1

\* C3 as stated: a call in which the construction of a DataSet failed ends by raising
\* the exception of that construction, with no result.
C3_LoadFailurePropagates ==
  (pc = "idle" /\ loadFailed # "none") => result = Raise(loadFailed)

RECURSIVE MergedRows(_, _)
\* the per-file results of call c on freshly constructed DataSets, one after the other
MergedRows(c, files) ==
  IF files = <<>>
  THEN <<>>
  ELSE PerFile(c, DataSetInit(Disk(Head(files))).obj, Head(files)).df.rows
         \o MergedRows(c, Tail(files))

\* C4: the rows a call returns are the rows of the per-file results in files_list
\* order, each file's rows in their table order, whichever files were cached before.
C4_MergeOrder ==
  Returned => result.df.rows = MergedRows(call, call.files_list)

\* C4 witness: a second call over two different files that both contribute rows, the
\* last of them served from the cache.
C4_Witness ==
  /\ Returned /\ ncalls = 2 /\ hit
  /\ Len(call.files_list) = 2 /\ call.files_list[1] # call.files_list[2]
  /\ \A n \in 1..2 :
        PerFile(call, DataSetInit(Disk(call.files_list[n])).obj, call.files_list[n]).df.rows
          # <<>>
  /\ Len(result.df.rows) > 2

\* the rows of a time_slice_daily result tagged with file name f
Tagged(df, f) == SelectSeq(df.rows, LAMBDA r : r[ColIdx(df.cols, "FileName")] = f)
\* positions of the time axis of file f holding value t
TimeHits(f, t) == {i \in 1..Len(f.time) : f.time[i] = t}

\* C8: a cache lookup that misses and whose construction fails leaves ds_dict as it
\* was: nothing is added for the file and no other entry is removed or replaced.
C8_FailedLoadLeavesCache ==
  [][(pc = "load" /\ call.files_list[idx] \notin DOMAIN ds_dict
        /\ DataSetInit(Disk(call.files_list[idx])).status # "ok")
       => ds_dict' = ds_dict]_vars

\* C8 witness: a construction has just failed while ds_dict holds another file.
C8_Witness ==
  /\ pc = "query" /\ loadFailed # "none"
  /\ ~hit
  /\ DOMAIN ds_dict # {}
  /\ call.files_list[idx] \notin DOMAIN ds_dict

\* C9: every row time_slice_daily returns carries in FileName a name of files_list;
\* the rows tagged f are, once per occurrence of f in files_list, the cells (lat, lon,
\* value) of f at the time positions holding the requested time, and there are none
\* when the time value is absent from f.
C9_SourceTagging ==
  (Returned /\ call.op = "time_slice_daily")
    => /\ \A n \in 1..Len(result.df.rows) :
             result.df.rows[n][ColIdx(result.df.cols, "FileName")] \in Range(call.files_list)
       /\ \A f \in Range(call.files_list) :
             LET nf == Disk(f)
                 rows == Tagged(result.df, f)
                 hits == TimeHits(nf, call.time)
                 g == Grid(nf, VarDict[call.var_long[1]])
             IN /\ Len(rows) = Count(call.files_list, f) * Cardinality(hits)
                                  * Len(nf.lat) * Len(nf.lon)
                /\ \A n \in 1..Len(rows) :
                      \E i \in hits, j \in 1..Len(nf.lat), k \in 1..Len(nf.lon) :
                        rows[n] = <<nf.lat[j], nf.lon[k], g[i][j][k], f>>
                /\ \A i \in hits, j \in 1..Len(nf.lat), k \in 1..Len(nf.lon) :
                      Count(rows, <<nf.lat[j], nf.lon[k], g[i][j][k], f>>)
                        = Count(call.files_list, f)

\* C9 witness: a call over two files for a time that only the first holds; all its
\* rows carry the first file's name.
C9_Witness ==
  /\ Returned /\ call.op = "time_slice_daily"
  /\ call.files_list = <<"f1.nc4", "f2.nc4">>
  /\ call.time = 0
  /\ Len(result.df.rows) = 4
  /\ Tagged(result.df, "f2.nc4") = <<>>
====
